---- MODULE Spec2Model ----
(***************************************************************************)
(* Model of wordcamp_favorites.py: favourite-session identifiers are read  *)
(* from a schedule URL, fetched in batches from the REST API, normalised   *)
(* into canonical session records and written out as an ICS calendar.      *)
(*                                                                         *)
(* Text is a sequence of atoms.  Every character the code inspects (the    *)
(* separators "&", "=", ",", "+", " ", "-", ":", "<", a line break, the    *)
(* digits of an identifier, the characters of a URL path) is an atom of    *)
(* its own; a run of characters the code never looks into (a parameter     *)
(* name, a speaker name, a fixed line of the calendar) is one atom.        *)
(***************************************************************************)
EXTENDS Integers, Sequences, FiniteSets, TLC

VARIABLES pc, schedule_url, session_ids, base_url, i, requests, outcomes,
          all_sessions, sessions, ics, exit_code

vars == <<pc, schedule_url, session_ids, base_url, i, requests, outcomes,
          all_sessions, sessions, ics, exit_code>>

(***************************************************************************)
(* Bounds of the model.                                                    *)
(***************************************************************************)
MaxIds == 23
MaxPathLen == 3
MaxRecords == 2

(***************************************************************************)
(* Text helpers: the str methods the program calls.                        *)
(***************************************************************************)
Whitespace == {" ", "\n", "\t"}

Min(a, b) == IF a < b THEN a ELSE b

RECURSIVE Split(_, _)
Split(s, sep) ==
    IF \E k \in 1..Len(s) : s[k] = sep
    THEN LET k == CHOOSE k \in 1..Len(s) :
                      s[k] = sep /\ \A j \in 1..(k - 1) : s[j] # sep
         IN  <<SubSeq(s, 1, k - 1)>> \o Split(SubSeq(s, k + 1, Len(s)), sep)
    ELSE <<s>>

RECURSIVE LStrip(_, _)
LStrip(s, chars) ==
    IF s # <<>> /\ s[1] \in chars THEN LStrip(Tail(s), chars) ELSE s

RECURSIVE RStrip(_, _)
RStrip(s, chars) ==
    IF s # <<>> /\ s[Len(s)] \in chars
    THEN RStrip(SubSeq(s, 1, Len(s) - 1), chars)
    ELSE s

Strip(s) == LStrip(RStrip(s, Whitespace), Whitespace)

Replace(s, old, new) ==
    [k \in DOMAIN s |-> IF s[k] = old THEN new ELSE s[k]]

Remove(s, old) == SelectSeq(s, LAMBDA c : c # old)

RECURSIVE Join(_, _)
Join(parts, sep) ==
    IF parts = <<>> THEN <<>>
    ELSE IF Len(parts) = 1 THEN parts[1]
    ELSE parts[1] \o sep \o Join(Tail(parts), sep)

RECURSIVE Flatten(_)
Flatten(parts) ==
    IF parts = <<>> THEN <<>> ELSE parts[1] \o Flatten(Tail(parts))

Range(s) == {s[k] : k \in DOMAIN s}

(***************************************************************************)
(* urllib.parse.parse_qs with its defaults (keep_blank_values = False):    *)
(* the query is split at "&", each piece at its first "=", a piece with    *)
(* no "=" or with a blank value is skipped, and "+" decodes to a space.    *)
(***************************************************************************)
Partition(piece) ==
    IF \E k \in 1..Len(piece) : piece[k] = "="
    THEN LET k == CHOOSE k \in 1..Len(piece) :
                      piece[k] = "=" /\ \A j \in 1..(k - 1) : piece[j] # "="
         IN  [has |-> TRUE, name |-> SubSeq(piece, 1, k - 1),
              value |-> SubSeq(piece, k + 1, Len(piece))]
    ELSE [has |-> FALSE, name |-> piece, value |-> <<>>]

\* parse_qs(query, keep_blank_values=True)
parse_qsl_keep_blank(query) ==
    LET parts  == Split(query, "&")
        pieces == [k \in DOMAIN parts |-> Partition(parts[k])]
        kept   == SelectSeq(pieces, LAMBDA p : p.name # <<>> \/ p.has)
    IN  [k \in DOMAIN kept |->
            [name  |-> Replace(kept[k].name, "+", " "),
             value |-> Replace(kept[k].value, "+", " ")]]

parse_qsl(query) ==
    LET pieces == [k \in DOMAIN Split(query, "&") |-> Partition(Split(query, "&")[k])]
        kept   == SelectSeq(pieces, LAMBDA p : p.has /\ Len(p.value) > 0)
    IN  [k \in DOMAIN kept |->
            [name  |-> Replace(kept[k].name, "+", " "),
             value |-> Replace(kept[k].value, "+", " ")]]

QueryGet(query, key) ==
    LET hits == SelectSeq(parse_qsl(query), LAMBDA p : p.name = <<key>>)
    IN  [k \in DOMAIN hits |-> hits[k].value]

(***************************************************************************)
(* extract_favorite_ids                                                    *)
(***************************************************************************)
extract_favorite_ids(url) ==
    LET fav_sessions == QueryGet(url.query, "fav-sessions")
    IN  IF fav_sessions = <<>>
        THEN <<>>
        ELSE LET ids == Split(fav_sessions[1], ",")
             IN  [k \in DOMAIN ids |-> Strip(ids[k])]

(***************************************************************************)
(* get_wordcamp_base_url: str.rstrip takes a SET of characters.            *)
(***************************************************************************)
ScheduleSegment == <<"/", "s", "c", "h", "e", "d", "u", "l", "e", "/">>

StripSchedule(path) == RStrip(path, Range(ScheduleSegment))

get_wordcamp_base_url(url) ==
    <<url.scheme, "://", url.netloc>> \o StripSchedule(url.path)

ApiUrl(base) == base \o <<"/wp-json/wp/v2/sessions">>

(***************************************************************************)
(* JSON values of the API.  A value is [k, s, l]: k its kind ("absent"     *)
(* for a key that is not there, "str", "int", "list", "dict"), s the text  *)
(* of a string or the digits of an integer, l the elements of a list, each *)
(* an element [k, s].                                                      *)
(***************************************************************************)
Absent == [k |-> "absent", s |-> <<>>, l |-> <<>>]
StrVal(t) == [k |-> "str", s |-> t, l |-> <<>>]
IntVal(t) == [k |-> "int", s |-> t, l |-> <<>>]
ListVal(elems) == [k |-> "list", s |-> <<>>, l |-> elems]
StrElem(t) == [k |-> "str", s |-> t]
IntElem(t) == [k |-> "int", s |-> t]

\* Python truth value of a value that is present
Truthy(v) ==
    CASE v.k = "str"  -> v.s # <<>>
      [] v.k = "int"  -> v.s # <<"0">>
      [] v.k = "list" -> v.l # <<>>
      [] OTHER        -> FALSE

\* x if isinstance(x, list) else [x]
AsList(v) == IF v.k = "list" THEN v.l ELSE <<[k |-> v.k, s |-> v.s]>>

speaker_fields == <<"_wcpt_speaker_id", "speakers", "_wcb_session_speakers">>
location_fields == <<"_wcpt_track_id", "track", "location", "_wcb_session_track">>
MetaFields == Range(speaker_fields) \cup Range(location_fields)

NoMeta == [f \in MetaFields |-> Absent]

\* field in session['meta'] and session['meta'][field]
FieldHit(meta, field) == meta.f[field].k # "absent" /\ Truthy(meta.f[field])

\* a meta that is a plain string: `field in meta` is a substring test, and
\* meta[field] then raises TypeError
MetaRaises(meta) ==
    meta.k = "str" /\ \E f \in MetaFields : \E k \in DOMAIN meta.t : meta.t[k] = f

(***************************************************************************)
(* re.findall(r'Speaker[s]?:\s*([^<\n]+)', content, re.IGNORECASE): a      *)
(* label, then whitespace taken greedily and given back one atom at a time *)
(* until an atom that is neither "<" nor a line break follows, then the    *)
(* longest run of such atoms.  The scan resumes after each match.          *)
(***************************************************************************)
SpeakerLabels == {"Speaker:", "Speakers:", "speaker:", "speakers:", "SPEAKERS:"}
Stoppers == {"<", "\n"}

\* the last index of the longest run, starting at from, of atoms that are in S
\* (inside = TRUE) or not in S (inside = FALSE)
RunEnd(text, from, S, inside) ==
    IF \E k \in from..Len(text) : (text[k] \in S) # inside
    THEN (CHOOSE k \in from..Len(text) :
              /\ (text[k] \in S) # inside
              /\ \A j \in from..(k - 1) : (text[j] \in S) = inside) - 1
    ELSE Len(text)

RECURSIVE FindSpeakers(_, _)
FindSpeakers(text, from) ==
    IF ~\E p \in from..Len(text) : text[p] \in SpeakerLabels
    THEN <<>>
    ELSE LET p  == CHOOSE p \in from..Len(text) :
                       text[p] \in SpeakerLabels
                       /\ \A j \in from..(p - 1) : text[j] \notin SpeakerLabels
             q  == RunEnd(text, p + 1, Whitespace, TRUE)
             starts == {s \in (p + 1)..Min(q + 1, Len(text)) : text[s] \notin Stoppers}
         IN  IF starts = {}
             THEN FindSpeakers(text, p + 1)
             ELSE LET s == CHOOSE s \in starts : \A r \in starts : r <= s
                      e == RunEnd(text, s, Stoppers, FALSE)
                  IN  <<SubSeq(text, s, e)>> \o FindSpeakers(text, e + 1)

(***************************************************************************)
(* extract_session_info, one raw record.  A raw record is                  *)
(*   [id, title, meta, content, date]                                      *)
(* id      [k, n]          k: "absent" | "int"                             *)
(* title   [k, rendered]   k: "absent" | "dict" | "str"                    *)
(* meta    [k, f, t]       k: "absent" | "dict" | "str"                    *)
(* content [k, rendered]   k: "absent" | "dict" | "str"                    *)
(* date    [k, t]          k: "absent" | "str"                             *)
(***************************************************************************)
UnknownTitle == <<"Unknown Title">>
UnknownSpeaker == <<"Unknown Speaker">>
UnknownLocation == <<"Unknown Location">>

\* session.get('title', {}).get('rendered', 'Unknown Title')
TitleOf(session) ==
    IF session.title.k = "dict" /\ session.title.rendered.k # "absent"
    THEN session.title.rendered.s
    ELSE UnknownTitle

RECURSIVE MetaSpeakers(_, _)
MetaSpeakers(meta, fields) ==
    IF fields = <<>> THEN <<>>
    ELSE (IF FieldHit(meta, fields[1]) THEN AsList(meta.f[fields[1]]) ELSE <<>>)
         \o MetaSpeakers(meta, Tail(fields))

ContentSpeakers(session) ==
    LET content == IF session.content.rendered.k = "absent"
                   THEN <<>> ELSE session.content.rendered.s
        speaker_matches == FindSpeakers(content, 1)
    IN  [k \in DOMAIN speaker_matches |-> StrElem(Strip(speaker_matches[k]))]

SpeakersOf(session) ==
    LET fromMeta == IF session.meta.k = "dict"
                    THEN MetaSpeakers(session.meta, speaker_fields) ELSE <<>>
        speakers == IF fromMeta = <<>> /\ session.content.k = "dict"
                    THEN ContentSpeakers(session) ELSE fromMeta
    IN  IF speakers # <<>> THEN speakers ELSE <<StrElem(UnknownSpeaker)>>

RECURSIVE FirstLocation(_, _)
FirstLocation(meta, fields) ==
    IF fields = <<>> THEN StrVal(UnknownLocation)
    ELSE IF FieldHit(meta, fields[1]) THEN meta.f[fields[1]]
    ELSE FirstLocation(meta, Tail(fields))

LocationOf(session) ==
    IF session.meta.k = "dict"
    THEN FirstLocation(session.meta, location_fields)
    ELSE StrVal(UnknownLocation)

\* the record raises: 'str' has no attribute 'get' (title, content), or a
\* string indexed by a field name (meta)
RecordRaises(session) ==
    \/ session.title.k = "str"
    \/ MetaRaises(session.meta)
    \/ /\ session.content.k = "str"
       /\ (session.meta.k # "dict" \/ MetaSpeakers(session.meta, speaker_fields) = <<>>)

\* 'id': session.get('ID'): the key misspelt, so every id is None
CanonicalNoId(session) ==
    [id       |-> [k |-> "absent", n |-> 0],
     title    |-> TitleOf(session),
     speakers |-> SpeakersOf(session),
     location |-> LocationOf(session),
     datetime |-> IF session.date.k = "absent" THEN [k |-> "str", t |-> <<>>]
                  ELSE session.date]

CanonicalOf(session) ==
    [id       |-> session.id,
     title    |-> TitleOf(session),
     speakers |-> SpeakersOf(session),
     location |-> LocationOf(session),
     datetime |-> IF session.date.k = "absent" THEN [k |-> "str", t |-> <<>>]
                  ELSE session.date]

extract_session_info(session_data) ==
    IF \E k \in DOMAIN session_data : RecordRaises(session_data[k])
    THEN [raised |-> TRUE, value |-> <<>>]
    ELSE [raised |-> FALSE,
          value  |-> [k \in DOMAIN session_data |-> CanonicalOf(session_data[k])]]

(***************************************************************************)
(* generate_ics_calendar.  The document is a sequence of lines, each line  *)
(* a text.                                                                 *)
(***************************************************************************)
Digit(d) == <<"0", "1", "2", "3", "4", "5", "6", "7", "8", "9">>[d + 1]

RECURSIVE PyStrInt(_)
PyStrInt(n) ==
    IF n < 10 THEN <<Digit(n)>> ELSE PyStrInt(n \div 10) \o <<Digit(n % 10)>>

\* f"{session['id']}": session.get('id') is None when the record has no id
PyStrId(id) == IF id.k = "absent" THEN <<"None">> ELSE PyStrInt(id.n)

Repr(e) == IF e.k = "str" THEN <<"'">> \o e.s \o <<"'">> ELSE e.s

\* f"{session['location']}"
PyStrValue(v) ==
    IF v.k = "list"
    THEN <<"[">> \o Join([k \in DOMAIN v.l |-> Repr(v.l[k])], <<", ">>) \o <<"]">>
    ELSE v.s

\* ', '.join(session['speakers']) raises TypeError on an element that is no str
JoinRaises(session) == \E k \in DOMAIN session.speakers : session.speakers[k].k # "str"
SpeakerList(session) ==
    Join([k \in DOMAIN session.speakers |-> session.speakers[k].s], <<", ">>)

Header ==
    << <<"BEGIN:VCALENDAR">>, <<"VERSION:2.0">>,
       <<"PRODID:-//WordCamp Favorites//Session Calendar//EN">>,
       <<"CALSCALE:GREGORIAN">>, <<"METHOD:PUBLISH">>, <<>> >>

TimezoneBlock ==
    << <<"BEGIN:VTIMEZONE">>, <<"TZID:America/Los_Angeles">>,
       <<"BEGIN:DAYLIGHT">>, <<"TZOFFSETFROM:-0800">>, <<"TZOFFSETTO:-0700">>,
       <<"TZNAME:PDT">>, <<"DTSTART:20250309T020000">>,
       <<"RRULE:FREQ=YEARLY;BYMONTH=3;BYDAY=2SU">>, <<"END:DAYLIGHT">>,
       <<"BEGIN:STANDARD">>, <<"TZOFFSETFROM:-0700">>, <<"TZOFFSETTO:-0800">>,
       <<"TZNAME:PST">>, <<"DTSTART:20251102T020000">>,
       <<"RRULE:FREQ=YEARLY;BYMONTH=11;BYDAY=1SU">>, <<"END:STANDARD">>,
       <<"END:VTIMEZONE">>, <<>> >>

DefaultStart == <<"20250101", "T", "120000">>
DefaultEnd == <<"20250101", "T", "130000">>

\* dict.get(key, default): the default is used only when the key is missing
DictGet(field, default) == IF field.k = "absent" THEN default ELSE field.t

\* .replace('-', '').replace(':', '').replace('T', 'T')
Compact(t) == Replace(Remove(Remove(t, "-"), ":"), "T", "T")

UidSuffix == "@wordcamp-favorites"

UidLine(session) == <<"UID:">> \o PyStrId(session.id) \o <<UidSuffix>>

DtStartLine(session) ==
    <<"DTSTART;TZID=America/Los_Angeles:">> \o Compact(DictGet(session.datetime, DefaultStart))

DtEndLine(session) ==
    <<"DTEND;TZID=America/Los_Angeles:">> \o Compact(DictGet(session.datetime, DefaultEnd))

Event(session) ==
    << <<"BEGIN:VEVENT">>,
       UidLine(session),
       DtStartLine(session),
       DtEndLine(session),
       <<"SUMMARY:">> \o session.title,
       <<"DESCRIPTION:Speaker(s): ">> \o SpeakerList(session),
       <<"LOCATION:">> \o PyStrValue(session.location),
       <<"END:VEVENT">>,
       <<>> >>

Events(ss) == Flatten([k \in DOMAIN ss |-> Event(ss[k])])

generate_ics_calendar(ss) ==
    IF \E k \in DOMAIN ss : JoinRaises(ss[k])
    THEN [raised |-> TRUE, lines |-> <<>>]
    ELSE [raised |-> FALSE,
          lines  |-> Header \o TimezoneBlock \o Events(ss) \o << <<"END:VCALENDAR">> >>]

NotWritten == [written |-> FALSE, lines |-> <<>>]

(***************************************************************************)
(* fetch_session_data: the batches and the accumulation of the results.    *)
(***************************************************************************)
chunk_size == 10

\* the slice one short: session_ids[i:i + chunk_size - 1]
ChunkOneShort(ids, from) == SubSeq(ids, from + 1, Min(from + chunk_size - 1, Len(ids)))

\* session_ids[i:i + chunk_size]
Chunk(ids, from) == SubSeq(ids, from + 1, Min(from + chunk_size, Len(ids)))

\* requests.get(api_url, params={'include': ','.join(chunk)}, timeout=30)
Request(base, chunk) == [url |-> ApiUrl(base), include |-> Join(chunk, <<",">>)]

\* all_sessions = sessions in place of all_sessions.extend(sessions)
ExtendAssign(all, outcome) == IF outcome.ok THEN outcome.records ELSE all

\* all_sessions.extend(sessions) on success, `continue` on RequestException
Extend(all, outcome) == IF outcome.ok THEN all \o outcome.records ELSE all

(***************************************************************************)
(* The remote API, as far as the program can observe it: a request fails   *)
(* (network error, timeout, non-2xx status) or answers with a list of raw  *)
(* records.  The server reads the include parameter as a list of numerals  *)
(* and answers each identifier at most once.                               *)
(***************************************************************************)
Numerals == {Digit(d) : d \in 0..9}
DigitVal(c) == CHOOSE d \in 0..9 : Digit(d) = c
IsNumeral(t) == t # <<>> /\ \A k \in DOMAIN t : t[k] \in Numerals

RECURSIVE ParseInt(_)
ParseInt(t) ==
    IF Len(t) = 1 THEN DigitVal(t[1])
    ELSE 10 * ParseInt(SubSeq(t, 1, Len(t) - 1)) + DigitVal(t[Len(t)])

RECURSIVE Dedup(_)
Dedup(seq) ==
    IF seq = <<>> THEN <<>>
    ELSE LET rest == Dedup(SubSeq(seq, 1, Len(seq) - 1))
         IN  IF seq[Len(seq)] \in Range(rest) THEN rest ELSE Append(rest, seq[Len(seq)])

Requested(include) ==
    LET numerals == SelectSeq(Split(include, ","), IsNumeral)
    IN  Dedup([k \in DOMAIN numerals |-> ParseInt(numerals[k])])

IdAbsent == [k |-> "absent", n |-> 0]
IdInt(n) == [k |-> "int", n |-> n]
TitleAbsent == [k |-> "absent", rendered |-> Absent]
TitleDict(r) == [k |-> "dict", rendered |-> r]
TitleStr == [k |-> "str", rendered |-> Absent]
MetaAbsent == [k |-> "absent", f |-> NoMeta, t |-> <<>>]
MetaDict(f) == [k |-> "dict", f |-> f, t |-> <<>>]
MetaStr(t) == [k |-> "str", f |-> NoMeta, t |-> t]
ContentAbsent == [k |-> "absent", rendered |-> Absent]
ContentDict(r) == [k |-> "dict", rendered |-> r]
ContentStr == [k |-> "str", rendered |-> Absent]
DateAbsent == [k |-> "absent", t |-> <<>>]
DateStr(t) == [k |-> "str", t |-> t]

RealDate == <<"2025", "-", "08", "-", "26", "T", "09", ":", "00", ":", "00">>

With(f, field, v) == [f EXCEPT ![field] = v]

\* an id the model never puts in a URL
ForeignId == MaxIds + 1

ApiShapes == {"full", "bare", "noid", "speakerids", "plaintitle"}

ApiRecord(shape, n) ==
    CASE shape = "full" ->
           [id |-> IdInt(n), title |-> TitleDict(StrVal(<<"Keynote">>)),
            meta |-> MetaDict(With(With(NoMeta, "speakers",
                                        ListVal(<<StrElem(<<"Alice">>), StrElem(<<"Bob">>)>>)),
                                   "track", StrVal(<<"Hall A">>))),
            content |-> ContentDict(StrVal(<<"Speakers:", " ", "Carol", "<", "/p>">>)),
            date |-> DateStr(RealDate)]
      [] shape = "bare" ->
           [id |-> IdInt(n), title |-> TitleAbsent, meta |-> MetaAbsent,
            content |-> ContentAbsent, date |-> DateAbsent]
      [] shape = "noid" ->
           [id |-> IdAbsent, title |-> TitleAbsent, meta |-> MetaAbsent,
            content |-> ContentAbsent, date |-> DateAbsent]
      [] shape = "speakerids" ->
           [id |-> IdInt(n), title |-> TitleDict(StrVal(<<"Keynote">>)),
            meta |-> MetaDict(With(NoMeta, "_wcpt_speaker_id", ListVal(<<IntElem(<<"7">>)>>))),
            content |-> ContentAbsent, date |-> DateStr(RealDate)]
      [] shape = "plaintitle" ->
           [id |-> IdInt(n), title |-> TitleStr, meta |-> MetaAbsent,
            content |-> ContentAbsent, date |-> DateStr(RealDate)]

Responses(include) ==
    LET ids == Requested(include)
    IN  {[k \in DOMAIN ids |-> ApiRecord(shape, ids[k])] : shape \in ApiShapes}
        \cup {[k \in 1..(Len(ids) - 1) |-> ApiRecord("full", ids[k + 1])]}
        \cup {Append([k \in DOMAIN ids |-> ApiRecord("full", ids[k])],
                     ApiRecord("full", ForeignId))}

\* the subclasses of RequestException that requests.get and raise_for_status raise
RequestErrors == {"ConnectionError", "Timeout", "HTTPError"}

Outcomes(req) ==
    {[ok |-> FALSE, error |-> e, records |-> <<>>] : e \in RequestErrors}
    \cup {[ok |-> TRUE, error |-> "none", records |-> r] : r \in Responses(req.include)}

(***************************************************************************)
(* The schedule URLs of the model, as urlparse splits them.                *)
(***************************************************************************)
IdList(n, period) == [k \in 1..n |-> PyStrInt(((k - 1) % period) + 1)]

Padded(ids) == [k \in DOMAIN ids |-> <<" ">> \o ids[k] \o <<"+">>]

FavValues ==
    UNION {{Join(IdList(n, p), <<",">>), Join(Padded(IdList(n, p)), <<",">>)} :
              n \in 1..MaxIds, p \in {chunk_size, MaxIds + 1}}

Queries ==
    {<<>>, <<"fav-sessions">>, <<"fav-sessions", "=">>, <<"day", "=", "1">>,
     <<"day", "=", "1", "&", "fav-sessions", "=", "&", "&">>,
     <<"fav-sessions", "=", " ">>, <<"fav-sessions", "=", ",">>}
    \cup {<<"fav-sessions", "=">> \o v : v \in FavValues}
    \cup {<<"day", "=", "1", "&", "fav-sessions", "=">> \o v \o <<"&", "fav-sessions", "=", "9">> :
              v \in {Join(IdList(n, chunk_size), <<",">>) : n \in {1, chunk_size + 1}}}

SchedulePath == <<"/", "2", "0", "2", "5">> \o ScheduleSegment

Url(path, query) ==
    [scheme |-> "https", netloc |-> "us.wordcamp.org", path |-> path, query |-> query]

(***************************************************************************)
(* main and the steps of the functions it calls.                           *)
(***************************************************************************)
Start(url, at) ==
    /\ pc = at
    /\ schedule_url = url
    /\ session_ids = <<>>
    /\ base_url = <<>>
    /\ i = 0
    /\ requests = <<>>
    /\ outcomes = <<>>
    /\ all_sessions = <<>>
    /\ sessions = <<>>
    /\ ics = NotWritten
    /\ exit_code = -1

Init == \E q \in Queries : Start(Url(SchedulePath, q), "extract")

\* session_ids = extract_favorite_ids(schedule_url); if not session_ids: sys.exit(1)
ExtractIds ==
    /\ pc = "extract"
    /\ session_ids' = extract_favorite_ids(schedule_url)
    /\ IF session_ids' = <<>>
       THEN pc' = "exit" /\ exit_code' = 1
       ELSE pc' = "base" /\ exit_code' = exit_code
    /\ UNCHANGED <<schedule_url, base_url, i, requests, outcomes, all_sessions,
                   sessions, ics>>

\* base_url = get_wordcamp_base_url(schedule_url), then the call of fetch_session_data
GetBase ==
    /\ pc = "base"
    /\ base_url' = get_wordcamp_base_url(schedule_url)
    /\ pc' = "fetch"
    /\ i' = 0
    /\ all_sessions' = <<>>
    /\ UNCHANGED <<schedule_url, session_ids, requests, outcomes, sessions, ics,
                   exit_code>>

\* one iteration of the loop of fetch_session_data
FetchBatch ==
    /\ pc = "fetch"
    /\ i < Len(session_ids)
    /\ LET req == Request(base_url, Chunk(session_ids, i))
       IN  \E outcome \in Outcomes(req) :
              /\ requests' = Append(requests, req)
              /\ outcomes' = Append(outcomes, outcome)
              /\ all_sessions' = Extend(all_sessions, outcome)
    /\ i' = i + chunk_size
    /\ UNCHANGED <<pc, schedule_url, session_ids, base_url, sessions, ics, exit_code>>

\* return all_sessions
FetchReturn ==
    /\ pc = "fetch"
    /\ i >= Len(session_ids)
    /\ pc' = "fetched"
    /\ UNCHANGED <<schedule_url, session_ids, base_url, i, requests, outcomes,
                   all_sessions, sessions, ics, exit_code>>

\* if not session_data: sys.exit(1)
CheckData ==
    /\ pc = "fetched"
    /\ IF all_sessions = <<>>
       THEN pc' = "exit" /\ exit_code' = 1
       ELSE pc' = "normalize" /\ exit_code' = exit_code
    /\ UNCHANGED <<schedule_url, session_ids, base_url, i, requests, outcomes,
                   all_sessions, sessions, ics>>

\* sessions = extract_session_info(session_data)
Normalize ==
    /\ pc = "normalize"
    /\ LET r == extract_session_info(all_sessions)
       IN  IF r.raised
           THEN pc' = "raised" /\ exit_code' = 1 /\ sessions' = sessions
           ELSE pc' = "normalized" /\ exit_code' = exit_code /\ sessions' = r.value
    /\ UNCHANGED <<schedule_url, session_ids, base_url, i, requests, outcomes,
                   all_sessions, ics>>

\* the listing printed by main: ', '.join(session['speakers']) for each session
Display ==
    /\ pc = "normalized"
    /\ IF \E k \in DOMAIN sessions : JoinRaises(sessions[k])
       THEN pc' = "raised" /\ exit_code' = 1
       ELSE pc' = "displayed" /\ exit_code' = exit_code
    /\ UNCHANGED <<schedule_url, session_ids, base_url, i, requests, outcomes,
                   all_sessions, sessions, ics>>

\* generate_ics_calendar(sessions, output_file): the file is written after the loop
Write(at) ==
    /\ pc = at
    /\ LET r == generate_ics_calendar(sessions)
       IN  IF r.raised
           THEN pc' = "raised" /\ exit_code' = 1 /\ ics' = ics
           ELSE pc' = "done" /\ exit_code' = 0
                /\ ics' = [written |-> TRUE, lines |-> r.lines]
    /\ UNCHANGED <<schedule_url, session_ids, base_url, i, requests, outcomes,
                   all_sessions, sessions>>

Emit == Write("displayed")

Next ==
    \/ ExtractIds
    \/ GetBase
    \/ FetchBatch
    \/ FetchReturn
    \/ CheckData
    \/ Normalize
    \/ Display
    \/ Emit

Spec == Init /\ [][Next]_vars

(***************************************************************************)
(* fetch_session_data on its own, for every identifier list of the model   *)
(* (the empty list included, which main never passes on).                  *)
(***************************************************************************)
FetchLists ==
    {IdList(n, p) : n \in 0..MaxIds, p \in {chunk_size, MaxIds + 1}}
    \cup {<< <<>> >>, << <<>>, <<>> >>, << <<"1">>, <<>>, <<"x">> >>}

InitFetch ==
    \E ids \in FetchLists :
        /\ pc = "fetch"
        /\ schedule_url = Url(SchedulePath, <<>>)
        /\ session_ids = ids
        /\ base_url = get_wordcamp_base_url(Url(SchedulePath, <<>>))
        /\ i = 0
        /\ requests = <<>>
        /\ outcomes = <<>>
        /\ all_sessions = <<>>
        /\ sessions = <<>>
        /\ ics = NotWritten
        /\ exit_code = -1

NextFetch ==
    \/ FetchBatch
    \/ FetchReturn

SpecFetch == InitFetch /\ [][NextFetch]_vars

(***************************************************************************)
(* Observations the properties are stated over.                            *)
(***************************************************************************)
\* the identifiers a request carries, read back from its include parameter
BatchOf(req) == Split(req.include, ",")
Batches == [k \in DOMAIN requests |-> BatchOf(requests[k])]

\* the records of the batches that succeeded, in request order
ReturnedRecords ==
    Flatten([k \in DOMAIN outcomes |->
                IF outcomes[k].ok THEN outcomes[k].records ELSE <<>>])

Count(seq, x) == Len(SelectSeq(seq, LAMBDA y : y = x))

\* the identifier of every UID line of the document, in document order
UidLines == SelectSeq(ics.lines, LAMBDA l : l # <<>> /\ l[1] = "UID:")
UidSeq == [k \in DOMAIN UidLines |-> SubSeq(UidLines[k], 2, Len(UidLines[k]) - 1)]

\* the query has a fav-sessions parameter with a value
HasFavValue(query) ==
    \E k \in 1..(Len(query) - 2) :
        /\ query[k] = "fav-sessions"
        /\ query[k + 1] = "="
        /\ query[k + 2] # "&"
        /\ (k = 1 \/ query[k - 1] = "&")

(***************************************************************************)
(* C1: when fetch_session_data returns for a list of n identifiers it has  *)
(* issued ceil(n/10) requests; every batch but the last holds 10           *)
(* identifiers, the last between 1 and 10, and the batches concatenated in *)
(* request order are the input list.                                       *)
(***************************************************************************)
C1_Batching ==
    pc = "fetched" =>
        LET n == Len(session_ids)
            m == Len(requests)
        IN  /\ m = (n + 9) \div 10
            /\ n = 0 => m = 0
            /\ \A k \in 1..(m - 1) : Len(Batches[k]) = 10
            /\ m > 0 => Len(Batches[m]) \in 1..10
            /\ Flatten(Batches) = session_ids

C1_Witness ==
    /\ pc = "fetched"
    /\ Len(session_ids) = 23
    /\ [k \in DOMAIN Batches |-> Len(Batches[k])] = <<10, 10, 3>>

(***************************************************************************)
(* C2: whatever batches fail, when fetch_session_data returns every batch  *)
(* has been requested exactly once, in order, and the result is the        *)
(* concatenation in batch order of the records of the batches that         *)
(* succeeded; it is empty when every batch failed.                         *)
(***************************************************************************)
C2_PartialResult ==
    pc = "fetched" =>
        LET n == Len(session_ids)
            m == (n + 9) \div 10
        IN  /\ Len(requests) = m
            /\ Len(outcomes) = m
            /\ \A k \in 1..m :
                  Batches[k] = SubSeq(session_ids, 10 * (k - 1) + 1, Min(10 * k, n))
            /\ all_sessions = ReturnedRecords
            /\ (\A k \in 1..m : ~outcomes[k].ok) => all_sessions = <<>>

C2_Witness ==
    /\ pc = "fetched"
    /\ Len(outcomes) = 3
    /\ outcomes[1].ok /\ outcomes[1].records # <<>>
    /\ outcomes[2].error = "Timeout"
    /\ outcomes[3].ok /\ outcomes[3].records # <<>>
    /\ all_sessions = outcomes[1].records \o outcomes[3].records

(***************************************************************************)
(* C3: for a URL whose query has no fav-sessions parameter, or has it      *)
(* empty, extract_favorite_ids returns the empty sequence and main exits   *)
(* with status 1, with no request issued and no calendar written.          *)
(***************************************************************************)
C3_NoFavorites ==
    (~HasFavValue(schedule_url.query) /\ pc # "extract") =>
        /\ session_ids = <<>>
        /\ pc = "exit"
        /\ exit_code = 1
        /\ requests = <<>>
        /\ ~ics.written

C3_Witness ==
    /\ schedule_url.query = <<"day", "=", "1", "&", "fav-sessions", "=", "&", "&">>
    /\ pc = "exit"
    /\ exit_code = 1

(***************************************************************************)
(* C7: the written document holds one event block per canonical session,   *)
(* in input order, exactly one timezone block, and pairwise distinct UIDs. *)
(***************************************************************************)
C7_EventsAndUids ==
    ics.written =>
        /\ Count(ics.lines, <<"BEGIN:VEVENT">>) = Len(sessions)
        /\ Count(ics.lines, <<"END:VEVENT">>) = Len(sessions)
        /\ UidSeq = [k \in DOMAIN sessions |-> PyStrId(sessions[k].id)]
        /\ Count(ics.lines, <<"BEGIN:VTIMEZONE">>) = 1
        /\ Count(ics.lines, <<"END:VTIMEZONE">>) = 1
        /\ \A a, b \in DOMAIN UidLines : a # b => UidLines[a] # UidLines[b]

(***************************************************************************)
(* C10 as stated: the identifiers in the event UIDs of the written         *)
(* calendar are exactly the identifiers of the batches that did not fail.  *)
(***************************************************************************)
IdsOfGoodBatches ==
    UNION {Range(Batches[k]) : k \in {j \in DOMAIN outcomes : outcomes[j].ok}}

PathAlphabet == {"/", "2", "e", "s", "a", "t", "l"}

RECURSIVE Words(_)
Words(n) ==
    IF n = 0 THEN {<<>>}
    ELSE Words(n - 1) \cup {Append(w, c) : w \in Words(n - 1), c \in PathAlphabet}

\* no empty path segment: a "/" is followed by a character that is not "/"
NoEmptySegment(p) ==
    \A k \in DOMAIN p : p[k] = "/" => (k < Len(p) /\ p[k + 1] # "/")

BasePaths ==
    {<<>>} \cup {p \in {<<"/">> \o w : w \in Words(MaxPathLen) \ {<<>>}} : NoEmptySegment(p)}

Paths ==
    {p \o tail : p \in BasePaths,
                 tail \in {ScheduleSegment, SubSeq(ScheduleSegment, 1, 9), <<"/">>}}

InitBase == \E p \in Paths : Start(Url(p, <<"fav-sessions", "=", "1">>), "base")

NextBase == GetBase

SpecBase == InitBase /\ [][NextBase]_vars

EndsWithSchedule(path) ==
    /\ Len(path) >= Len(ScheduleSegment)
    /\ SubSeq(path, Len(path) - Len(ScheduleSegment) + 1, Len(path)) = ScheduleSegment

(***************************************************************************)
(* C6: for a path P + '/schedule/' the base URL is scheme://host + P, with *)
(* no character of P removed.                                              *)
(***************************************************************************)
C6_ExactSegmentStripped ==
    (pc = "fetch" /\ EndsWithSchedule(schedule_url.path)) =>
        base_url = <<schedule_url.scheme, "://", schedule_url.netloc>>
                   \o SubSeq(schedule_url.path, 1,
                             Len(schedule_url.path) - Len(ScheduleSegment))

(***************************************************************************)
(* extract_session_info and generate_ics_calendar on their own.  One raw   *)
(* record in every shape of title, title.rendered, meta, the speaker and   *)
(* location fields and content (absent, empty, non-empty), and sequences   *)
(* of up to MaxRecords records that also take the malformed shapes.        *)
(***************************************************************************)
TitleShapes ==
    {TitleAbsent, TitleDict(Absent), TitleDict(StrVal(<<>>)), TitleDict(StrVal(<<"Keynote">>))}

SpeakerValue(f, n) ==
    CASE n = 0 -> Absent
      [] n = 1 -> StrVal(<<>>)
      [] n = 2 -> StrVal(<<"solo ", f>>)
      [] n = 3 -> ListVal(<<StrElem(<<"first ", f>>), StrElem(<<"second ", f>>)>>)

LocationValue(f, n) ==
    CASE n = 0 -> Absent
      [] n = 1 -> StrVal(<<>>)
      [] n = 2 -> StrVal(<<"room ", f>>)

MetaShapes ==
    {MetaAbsent}
    \cup {MetaDict([f \in MetaFields |->
                       IF f \in Range(speaker_fields)
                       THEN SpeakerValue(f, sp[f]) ELSE LocationValue(f, lo[f])]) :
             sp \in [Range(speaker_fields) -> 0..3],
             lo \in [Range(location_fields) -> 0..2]}

ContentText ==
    <<"Speakers:", " ", "Carol, Dan", " ", "<", "/p>", "speaker:", "\n", "Eve", "\n">>

ContentShapes ==
    {ContentAbsent, ContentDict(Absent), ContentDict(StrVal(<<>>)),
     ContentDict(StrVal(ContentText))}

RecordShapes ==
    {[id |-> IdInt(1), title |-> t, meta |-> m, content |-> c, date |-> DateAbsent] :
        t \in TitleShapes, m \in MetaShapes, c \in ContentShapes}

Bare(n) == ApiRecord("bare", n)

OddRecords ==
    {ApiRecord(shape, 1) : shape \in ApiShapes}
    \cup {[Bare(2) EXCEPT !.date = DateStr(<<>>)],
          [Bare(3) EXCEPT !.date = DateStr(RealDate)],
          [Bare(4) EXCEPT !.meta = MetaStr(<<"speakers">>)],
          [Bare(5) EXCEPT !.meta = MetaStr(<<"n/a">>)],
          [Bare(6) EXCEPT !.content = ContentStr],
          [Bare(7) EXCEPT !.content = ContentStr,
                          !.meta = MetaDict(With(NoMeta, "speakers", StrVal(<<"Ann">>)))],
          [Bare(8) EXCEPT !.meta = MetaDict(With(NoMeta, "_wcpt_speaker_id", IntVal(<<"7">>)))],
          [Bare(9) EXCEPT !.meta = MetaDict(With(With(NoMeta, "speakers", ListVal(<<>>)),
                                                 "track", ListVal(<<StrElem(<<"Hall A">>)>>)))]}

RECURSIVE SeqsUpTo(_, _)
SeqsUpTo(S, n) ==
    IF n = 0 THEN {<<>>}
    ELSE SeqsUpTo(S, n - 1)
         \cup {Append(q, x) : q \in {r \in SeqsUpTo(S, n - 1) : Len(r) = n - 1}, x \in S}

SessionData == {<<r>> : r \in RecordShapes} \cup SeqsUpTo(OddRecords, MaxRecords)

InitNormalize ==
    \E data \in SessionData :
        /\ pc = "normalize"
        /\ schedule_url = Url(SchedulePath, <<>>)
        /\ session_ids = <<>>
        /\ base_url = <<>>
        /\ i = 0
        /\ requests = <<>>
        /\ outcomes = <<>>
        /\ all_sessions = data
        /\ sessions = <<>>
        /\ ics = NotWritten
        /\ exit_code = -1

\* generate_ics_calendar(sessions) called on the normalizer's result
Render == Write("normalized")

NextNormalize ==
    \/ Normalize
    \/ Render

SpecNormalize == InitNormalize /\ [][NextNormalize]_vars

(***************************************************************************)
(* Observations on the normalizer and the emitter.                         *)
(***************************************************************************)
\* the speaker fields of a record's meta that are present and non-empty, in probe order
PresentSpeakerFields(r) ==
    SelectSeq(speaker_fields,
              LAMBDA f : r.meta.f[f].k # "absent"
                         /\ (r.meta.f[f].s # <<>> \/ r.meta.f[f].l # <<>>))

\* the record has only the shapes C5 lists: nothing of an unexpected type
ExpectedShape(r) ==
    /\ r.title.k \in {"absent", "dict"}
    /\ r.meta.k \in {"absent", "dict"}
    /\ r.content.k \in {"absent", "dict"}
    /\ \A f \in MetaFields :
          /\ r.meta.f[f].k \in {"absent", "str", "list"}
          /\ \A k \in DOMAIN r.meta.f[f].l : r.meta.f[f].l[k].k = "str"

\* the lines of the k-th event of the document that start with the given atom
EventLine(k, head) ==
    LET hits == SelectSeq(ics.lines, LAMBDA l : l # <<>> /\ l[1] = head)
    IN  SubSeq(hits[k], 2, Len(hits[k]))

DtStart == "DTSTART;TZID=America/Los_Angeles:"
DtEnd == "DTEND;TZID=America/Los_Angeles:"

(***************************************************************************)
(* C4: the speakers of a record are the value of the first speaker field,  *)
(* in the order _wcpt_speaker_id, speakers, _wcb_session_speakers, that is *)
(* present and non-empty (a list as it is, a single value as a one-element *)
(* sequence); later fields contribute nothing.                             *)
(***************************************************************************)
C4_FirstSpeakerFieldWins ==
    pc = "normalized" =>
        \A k \in DOMAIN all_sessions :
            LET r == all_sessions[k]
                present == PresentSpeakerFields(r)
            IN  (r.meta.k = "dict" /\ present # <<>>) =>
                    LET v == r.meta.f[present[1]]
                    IN  sessions[k].speakers =
                            IF v.k = "list" THEN v.l ELSE <<[k |-> v.k, s |-> v.s]>>

(***************************************************************************)
(* C5: every canonical record of a raw record of the listed shapes has a   *)
(* non-empty speakers sequence, a title that is not the empty string and a *)
(* location that is not the empty string; a record with no title, speaker  *)
(* or location data gets the three placeholders.                           *)
(***************************************************************************)
C5_NoEmptyFields ==
    pc = "normalized" =>
        \A k \in DOMAIN all_sessions :
            ExpectedShape(all_sessions[k]) =>
                /\ sessions[k].speakers # <<>>
                /\ sessions[k].title # <<>>
                /\ ~(sessions[k].location.k = "str" /\ sessions[k].location.s = <<>>)
                /\ (/\ all_sessions[k].title.k = "absent"
                    /\ all_sessions[k].meta.k = "absent"
                    /\ all_sessions[k].content.k = "absent") =>
                        /\ sessions[k].title = <<"Unknown Title">>
                        /\ sessions[k].speakers = <<[k |-> "str", s |-> <<"Unknown Speaker">>]>>
                        /\ sessions[k].location.s = <<"Unknown Location">>

(***************************************************************************)
(* C8: a session whose start-time field is empty is written with DTSTART   *)
(* 20250101T120000 and DTEND 20250101T130000; a session with a real value  *)
(* is written with DTSTART and DTEND both that value without "-" and ":".  *)
(***************************************************************************)
C8_DefaultTimestamps ==
    ics.written =>
        \A k \in DOMAIN sessions :
            IF sessions[k].datetime.t = <<>>
            THEN /\ EventLine(k, DtStart) = <<"20250101", "T", "120000">>
                 /\ EventLine(k, DtEnd) = <<"20250101", "T", "130000">>
            ELSE LET compact == SelectSeq(sessions[k].datetime.t,
                                          LAMBDA c : c \notin {"-", ":"})
                 IN  /\ EventLine(k, DtStart) = compact
                     /\ EventLine(k, DtEnd) = compact

(***************************************************************************)
(* C9: no shape of a raw record raises; the run yields one canonical       *)
(* record and one event per raw record, and a well-formed record is        *)
(* normalized as it is when normalized alone.                              *)
(***************************************************************************)
C9_NoRecordRaises ==
    /\ pc # "raised"
    /\ pc \in {"normalized", "done"} =>
          /\ Len(sessions) = Len(all_sessions)
          /\ \A k \in DOMAIN all_sessions :
                ExpectedShape(all_sessions[k]) =>
                    sessions[k] = extract_session_info(<<all_sessions[k]>>).value[1]
    /\ pc = "done" => Count(ics.lines, <<"BEGIN:VEVENT">>) = Len(all_sessions)

====
